---- MODULE Spec2Model ----
(***************************************************************************)
(* CIFAR-10 classification service: the batch pipeline of the two Flask    *)
(* deployments.                                                            *)
(*   "persist" : src/backend/app.py  (model loaded at import, images saved *)
(*               under classified_images/<session>/<class>/, zip download) *)
(*   "lazy"    : src/api/index.py    (model loaded on first use by         *)
(*               get_model, no persistence)                                *)
(* A state is one process of one deployment; requests are handled by       *)
(* threads of that process and interleave between the steps below.         *)
(***************************************************************************)
EXTENDS Integers, Sequences, FiniteSets, TLC

VARIABLES
    variant,       \* which deployment this process runs
    mode,          \* "threads": two requests interleave; "single": one request
    clock,         \* datetime.now(), in whole seconds
    dirs,          \* directories on disk, as paths from the working directory
    disk,          \* regular files on disk: path -> content
    pc,            \* per request: position of its handler
    files,         \* per request: request.files.getlist('images')
    idx,           \* per request: position of the for loop in files
    session_id,    \* per request: session_id of predict (persist)
    results,       \* per request: the local list results
    class_counts,  \* per request: the local dict class_counts
    outcomes,      \* per request: what happened to each processed image
    response,      \* per request: the HTTP response, status 0 while running
    model_,        \* the global _model of api/index.py, 0 for None
    loads,         \* number of model objects torch.hub.load has returned
    evald,         \* the model objects on which .eval() has been called
    returned       \* <<model object, was it in eval mode>> per get_model return

vars == <<variant, mode, clock, dirs, disk, pc, files, idx, session_id,
          results, class_counts, outcomes, response, model_, loads, evald,
          returned>>

fsVars   == <<clock, dirs, disk>>
lazyVars == <<model_, loads, evald, returned>>

-----------------------------------------------------------------------------
(* Bounds of the model.  Spec runs two requests as concurrent threads, each *)
(* with at most MaxFilesThreads parts; SpecSingle runs one request with at  *)
(* most MaxFiles parts.  Downloads are served at any time in both.          *)

MaxFiles == 2         \* parts named 'images' in the request of "single" mode
MaxFilesThreads == 1  \* the same, for each request of "threads" mode
MaxClock == 2         \* seconds the wall clock runs through
MaxWrap == 1          \* nesting of classified_images_<id>.zip in a download id

Requests == {"r1", "r2"}

-----------------------------------------------------------------------------
(* Constants of the program *)

OUTPUT_DIR == <<"classified_images">>

CIFAR10_CLASSES ==
    <<"airplane", "automobile", "bird", "cat", "deer",
      "dog", "frog", "horse", "ship", "truck">>

\* datetime.now().strftime("%Y%m%d_%H%M%S"): one string per second.
Strftime(t) == "20250101_00000" \o ToString(t)

\* f"classified_images_{session_id}.zip"
ZipName(id) == "classified_images_" \o id \o ".zip"

-----------------------------------------------------------------------------
(* The inputs: uploaded parts.  A filename is the client's string split at  *)
(* "/", so '' is <<>>.  The bytes are "c" (a cat picture), "d" (a dog       *)
(* picture) or "x" (not an image).                                          *)

Part(filename, bytes) == [filename |-> filename, bytes |-> bytes]

Parts ==
    { Part(<<>>, "x"),                  \* a part without a file
      Part(<<"a.png">>, "c"),
      Part(<<"a.png">>, "d"),
      Part(<<"a.png">>, "x"),
      Part(<<"..", "a.png">>, "c"),
      Part(<<"..", "..", Strftime(1), "cat", "a.png">>, "c") }

Batches(m) ==
    UNION { [1..n -> Parts] :
              n \in 0..(IF m = "single" THEN MaxFiles ELSE MaxFilesThreads) }

RECURSIVE Wrapped(_)
Wrapped(k) ==
    IF k = 0
      THEN { Strftime(t) : t \in 1..MaxClock } \cup {"nosuch"}
      ELSE Wrapped(k - 1) \cup { ZipName(id) : id \in Wrapped(k - 1) }

DownloadIds == Wrapped(MaxWrap)

-----------------------------------------------------------------------------
(* The file system *)

Parent(p) == IF p = <<>> THEN <<>> ELSE SubSeq(p, 1, Len(p) - 1)

Exists(d, f, p) == p \in d \/ p \in DOMAIN f

\* Path lookup from directory cur along comps: every component but the last
\* is looked up in a directory; ".." goes to the parent.
RECURSIVE Lookup(_, _, _)
Lookup(d, cur, comps) ==
    IF comps = <<>> THEN [ok |-> TRUE, path |-> cur]
    ELSE IF cur \notin d THEN [ok |-> FALSE, path |-> cur]
    ELSE Lookup(d,
                IF Head(comps) = ".." THEN Parent(cur) ELSE Append(cur, Head(comps)),
                Tail(comps))

\* os.makedirs(p, exist_ok=True): creates the missing prefixes of p in order;
\* fails at the first prefix that is a regular file, keeping what it made.
RECURSIVE makedirs(_, _, _, _)
makedirs(d, f, p, k) ==
    IF k > Len(p) THEN [ok |-> TRUE, dirs |-> d]
    ELSE IF SubSeq(p, 1, k) \in DOMAIN f THEN [ok |-> FALSE, dirs |-> d]
    ELSE makedirs(d \cup {SubSeq(p, 1, k)}, f, p, k + 1)

Write(f, p, c) == [q \in DOMAIN f \cup {p} |-> IF q = p THEN c ELSE f[q]]

InTree(p, root) == Len(p) > Len(root) /\ SubSeq(p, 1, Len(root)) = root

-----------------------------------------------------------------------------
(* Helpers shared by the two deployments (the code is the same in both)    *)

\* Image.open(io.BytesIO(image_bytes)) and the transform succeed on images.
Decodable(image_bytes) == image_bytes # "x"

\* torch.max(model(input_batch), 1): the index the classifier answers.
ModelOutput(image_bytes) == IF image_bytes = "c" THEN 3 ELSE 5

\* CIFAR10_CLASSES[predicted_idx.item()], Python indexing from 0.
LabelOf(i) == CIFAR10_CLASSES[i + 1]

\* softmax probability of the predicted index, as a percentage
Confidence(image_bytes) == IF image_bytes = "c" THEN 90 ELSE 80

\* ErrorResult as it would be with the message left out of the dict
ErrorResultNoMessage(filename, e) ==
    [filename |-> filename, class |-> "error"]

\* the except branch of predict_image
ErrorResult(filename, e) ==
    [filename |-> filename, class |-> "error", error |-> e]

\* SkipFile as it would be without the test of the filename
SkipFileNever(file) == FALSE

\* file.filename == ''
SkipFile(file) == file.filename = <<>>

EmptyDict == [c \in {} |-> 0]

Get(dict, k, default) == IF k \in DOMAIN dict THEN dict[k] ELSE default

\* CountClass as it would be without the test of the class
CountClassAll(counts, result) ==
    [c \in DOMAIN counts \cup {result.class} |->
       IF c = result.class THEN Get(counts, c, 0) + 1 ELSE counts[c]]

\* if result.get('class') != 'error': class_counts[c] = class_counts.get(c, 0) + 1
CountClass(counts, result) ==
    IF result.class # "error"
      THEN [c \in DOMAIN counts \cup {result.class} |->
              IF c = result.class THEN Get(counts, c, 0) + 1 ELSE counts[c]]
      ELSE counts

\* results.append(result)
ResultsAppend(rs, result) == Append(rs, result)

\* the JSON body of a 200 answer, without session_id
BatchResult(rs, counts) ==
    [results |-> rs, class_counts |-> counts, total_images |-> Len(rs)]

NoImages == [status |-> 400, body |-> [error |-> "No images provided"]]

Running == [status |-> 0]

\* A request arrives; in "single" mode only r1 does.
CanStart(r) ==
    /\ pc[r] = "idle"
    /\ mode = "single" => r = "r1"

-----------------------------------------------------------------------------
(* src/backend/app.py *)

\* predict_image(image_bytes, filename, session_id) on the disk (d, f).
\* modelOk: the inference call returns; ioOk: image.save meets no I/O error.
\* Answers the returned dict, what happened, and the disk afterwards.
predict_image(d, f, image_bytes, filename, sid, modelOk, ioOk) ==
    IF ~Decodable(image_bytes)
      THEN [result |-> ErrorResult(filename, "cannot identify image file"),
            outcome |-> "decode", dirs |-> d, disk |-> f]
    ELSE IF ~modelOk
      THEN [result |-> ErrorResult(filename, "inference failed"),
            outcome |-> "model", dirs |-> d, disk |-> f]
    ELSE
      LET predicted_class == LabelOf(ModelOutput(image_bytes))
          session_dir == OUTPUT_DIR \o <<sid>>
          class_dir   == session_dir \o <<predicted_class>>
          mk          == makedirs(d, f, class_dir, 1)
          target      == Lookup(mk.dirs, class_dir, filename)
      IN IF ~mk.ok
           THEN [result |-> ErrorResult(filename, "File exists"),
                 outcome |-> "save", dirs |-> mk.dirs, disk |-> f]
         ELSE IF ~target.ok
           THEN [result |-> ErrorResult(filename, "No such file or directory"),
                 outcome |-> "save", dirs |-> mk.dirs, disk |-> f]
         ELSE IF target.path \in mk.dirs
           THEN [result |-> ErrorResult(filename, "Is a directory"),
                 outcome |-> "save", dirs |-> mk.dirs, disk |-> f]
         ELSE IF ~ioOk
           THEN [result |-> ErrorResult(filename, "cannot write image"),
                 outcome |-> "save", dirs |-> mk.dirs, disk |-> f]
         ELSE [result |-> [filename |-> filename, class |-> predicted_class,
                           saved_path |-> class_dir \o filename],
               outcome |-> "ok", dirs |-> mk.dirs,
               disk |-> Write(f, target.path, [img |-> image_bytes])]

\* predict, lines 118-131: the checks, the session id, the empty locals
StartPersist(r) ==
    /\ variant = "persist"
    /\ CanStart(r)
    /\ \E b \in Batches(mode) :
         /\ files' = [files EXCEPT ![r] = b]
         /\ IF Len(b) = 0
              THEN /\ response' = [response EXCEPT ![r] = NoImages]
                   /\ pc' = [pc EXCEPT ![r] = "done"]
                   /\ UNCHANGED session_id
              ELSE /\ session_id' = [session_id EXCEPT ![r] = Strftime(clock)]
                   /\ pc' = [pc EXCEPT ![r] = "loop"]
                   /\ UNCHANGED response
    /\ UNCHANGED <<variant, mode, fsVars, idx, results, class_counts, outcomes,
                   lazyVars>>

\* predict, lines 134-147: one iteration of the for loop
LoopPersist(r) ==
    /\ variant = "persist"
    /\ pc[r] = "loop"
    /\ idx[r] <= Len(files[r])
    /\ idx' = [idx EXCEPT ![r] = @ + 1]
    /\ LET file == files[r][idx[r]] IN
         IF SkipFile(file)
           THEN UNCHANGED <<dirs, disk, results, class_counts, outcomes>>
           ELSE \E modelOk \in BOOLEAN, ioOk \in BOOLEAN :
                  LET out == predict_image(dirs, disk, file.bytes, file.filename,
                                           session_id[r], modelOk, ioOk)
                  IN /\ dirs' = out.dirs
                     /\ disk' = out.disk
                     /\ results' = [results EXCEPT ![r] = ResultsAppend(@, out.result)]
                     /\ class_counts' = [class_counts EXCEPT ![r] = CountClass(@, out.result)]
                     /\ outcomes' = [outcomes EXCEPT ![r] = Append(@, out.outcome)]
    /\ UNCHANGED <<variant, mode, clock, pc, files, session_id, response,
                   lazyVars>>

\* ReturnPersist as it would be with the session id taken anew from the
\* clock when the answer is built
ReturnPersistFreshId(r) ==
    /\ variant = "persist"
    /\ pc[r] = "loop"
    /\ idx[r] > Len(files[r])
    /\ response' = [response EXCEPT ![r] =
         [status |-> 200,
          body |-> [results |-> results[r], session_id |-> Strftime(clock),
                    class_counts |-> class_counts[r],
                    total_images |-> Len(results[r])]]]
    /\ pc' = [pc EXCEPT ![r] = "done"]
    /\ UNCHANGED <<variant, mode, fsVars, files, idx, session_id, results,
                   class_counts, outcomes, lazyVars>>

\* predict, lines 149-154: the answer
ReturnPersist(r) ==
    /\ variant = "persist"
    /\ pc[r] = "loop"
    /\ idx[r] > Len(files[r])
    /\ response' = [response EXCEPT ![r] =
         [status |-> 200,
          body |-> [results |-> results[r], session_id |-> session_id[r],
                    class_counts |-> class_counts[r],
                    total_images |-> Len(results[r])]]]
    /\ pc' = [pc EXCEPT ![r] = "done"]
    /\ UNCHANGED <<variant, mode, fsVars, files, idx, session_id, results,
                   class_counts, outcomes, lazyVars>>

\* arcname as it would be with os.path.basename(file_path)
arcnameBase(file_path, session_dir) == <<file_path[Len(file_path)]>>

\* os.path.relpath(file_path, session_dir)
arcname(file_path, session_dir) ==
    SubSeq(file_path, Len(session_dir) + 1, Len(file_path))

\* the os.walk loop of download: every regular file below session_dir
\* (none when session_dir is itself a regular file), written as arcname.
ZipWalk(f, session_dir) ==
    { <<arcname(p, session_dir), f[p]>> :
        p \in { q \in DOMAIN f : InTree(q, session_dir) } }

\* download(session_id) on the disk (d, f): the answer, and the files afterwards
download(d, f, id) ==
    LET session_dir  == OUTPUT_DIR \o <<id>>
        zip_filename == ZipName(id)
        zip_path     == OUTPUT_DIR \o <<zip_filename>>
        archive      == ZipWalk(f, session_dir)
    IN IF ~Exists(d, f, session_dir)
         THEN [status |-> 404, error |-> "Session not found", disk |-> f]
         ELSE [status |-> 200, download_name |-> zip_filename,
               archive |-> archive,
               disk |-> Write(f, zip_path, [zip |-> archive])]

\* a GET /download/<id> request is served, as one step; the answer is
\* download(dirs, disk, id) of the state before
Download(id) ==
    /\ variant = "persist"
    /\ disk' = download(dirs, disk, id).disk
    /\ UNCHANGED <<variant, mode, clock, dirs, pc, files, idx, session_id,
                   results, class_counts, outcomes, response, lazyVars>>

\* list_sessions(): the directories directly under OUTPUT_DIR
list_sessions == { p[2] : p \in { q \in dirs : Len(q) = 2 /\ Parent(q) = OUTPUT_DIR } }

\* the wall clock moves on
Tick ==
    /\ variant = "persist"
    /\ clock < MaxClock
    /\ clock' = clock + 1
    /\ UNCHANGED <<variant, mode, dirs, disk, pc, files, idx, session_id,
                   results, class_counts, outcomes, response, lazyVars>>

-----------------------------------------------------------------------------
(* src/api/index.py *)

\* predict, lines 105-115
StartLazy(r) ==
    /\ variant = "lazy"
    /\ CanStart(r)
    /\ \E b \in Batches(mode) :
         /\ files' = [files EXCEPT ![r] = b]
         /\ IF Len(b) = 0
              THEN /\ response' = [response EXCEPT ![r] = NoImages]
                   /\ pc' = [pc EXCEPT ![r] = "done"]
              ELSE /\ pc' = [pc EXCEPT ![r] = "loop"]
                   /\ UNCHANGED response
    /\ UNCHANGED <<variant, mode, fsVars, idx, session_id, results,
                   class_counts, outcomes, lazyVars>>

\* The end of one loop iteration: predict_image has returned result
\* (lines 126-131); the loop moves to the next file.
Finish(r, result, outcome) ==
    /\ results' = [results EXCEPT ![r] = ResultsAppend(@, result)]
    /\ class_counts' = [class_counts EXCEPT ![r] = CountClass(@, result)]
    /\ outcomes' = [outcomes EXCEPT ![r] = Append(@, outcome)]
    /\ idx' = [idx EXCEPT ![r] = @ + 1]
    /\ pc' = [pc EXCEPT ![r] = "loop"]

\* predict lines 118-123 and predict_image lines 60-70: the next file is
\* skipped, or fails to decode, or is ready for the model.
LoopLazy(r) ==
    /\ variant = "lazy"
    /\ pc[r] = "loop"
    /\ idx[r] <= Len(files[r])
    /\ LET file == files[r][idx[r]] IN
         IF SkipFile(file)
           THEN /\ idx' = [idx EXCEPT ![r] = @ + 1]
                /\ UNCHANGED <<pc, results, class_counts, outcomes>>
         ELSE IF ~Decodable(file.bytes)
           THEN Finish(r, ErrorResult(file.filename, "cannot identify image file"),
                       "decode")
         ELSE /\ pc' = [pc EXCEPT ![r] = "get_model"]
              /\ UNCHANGED <<idx, results, class_counts, outcomes>>
    /\ UNCHANGED <<variant, mode, fsVars, files, session_id, response, lazyVars>>

\* get_model, line 28: if _model is None
GetModelCheck(r) ==
    /\ pc[r] = "get_model"
    /\ pc' = [pc EXCEPT ![r] = IF model_ = 0 THEN "load" ELSE "return"]
    /\ UNCHANGED <<variant, mode, fsVars, files, idx, session_id, results,
                   class_counts, outcomes, response, lazyVars>>

\* get_model, lines 30-34: _model = torch.hub.load(...).  The load answers a
\* new model object, or raises; the exception ends predict_image in its
\* except branch with _model as it was.
GetModelLoad(r) ==
    /\ pc[r] = "load"
    /\ \E ok \in BOOLEAN :
         IF ok
           THEN /\ loads' = loads + 1
                /\ model_' = loads + 1
                /\ pc' = [pc EXCEPT ![r] = "eval"]
                /\ UNCHANGED <<idx, results, class_counts, outcomes>>
           ELSE /\ Finish(r, ErrorResult(files[r][idx[r]].filename, "model unavailable"),
                          "load")
                /\ UNCHANGED <<loads, model_>>
    /\ UNCHANGED <<variant, mode, fsVars, files, session_id, response, evald,
                   returned>>

\* get_model, line 35: _model.eval(), on whatever the global holds now
GetModelEval(r) ==
    /\ pc[r] = "eval"
    /\ evald' = evald \cup {model_}
    /\ pc' = [pc EXCEPT ![r] = "return"]
    /\ UNCHANGED <<variant, mode, fsVars, files, idx, session_id, results,
                   class_counts, outcomes, response, model_, loads, returned>>

\* get_model, line 37 (return _model) and predict_image, lines 74-87: the
\* inference on the model returned, and the result dict.
GetModelReturn(r) ==
    /\ pc[r] = "return"
    /\ returned' = returned \cup {<<model_, model_ \in evald>>}
    /\ LET file == files[r][idx[r]] IN
         \E modelOk \in BOOLEAN :
           IF modelOk
             THEN Finish(r, [filename |-> file.filename,
                             class |-> LabelOf(ModelOutput(file.bytes)),
                             confidence |-> Confidence(file.bytes)], "ok")
             ELSE Finish(r, ErrorResult(file.filename, "inference failed"), "model")
    /\ UNCHANGED <<variant, mode, fsVars, files, session_id, response, model_,
                   loads, evald>>

\* predict, lines 133-137
ReturnLazy(r) ==
    /\ variant = "lazy"
    /\ pc[r] = "loop"
    /\ idx[r] > Len(files[r])
    /\ response' = [response EXCEPT ![r] =
         [status |-> 200, body |-> BatchResult(results[r], class_counts[r])]]
    /\ pc' = [pc EXCEPT ![r] = "done"]
    /\ UNCHANGED <<variant, mode, fsVars, files, idx, session_id, results,
                   class_counts, outcomes, lazyVars>>

-----------------------------------------------------------------------------
(* The process *)

InitCommon ==
    /\ variant \in {"persist", "lazy"}
    /\ clock = 1
    /\ dirs = {<<>>, OUTPUT_DIR}
    /\ disk = [p \in {} |-> 0]
    /\ pc = [r \in Requests |-> "idle"]
    /\ files = [r \in Requests |-> <<>>]
    /\ idx = [r \in Requests |-> 1]
    /\ session_id = [r \in Requests |-> ""]
    /\ results = [r \in Requests |-> <<>>]
    /\ class_counts = [r \in Requests |-> EmptyDict]
    /\ outcomes = [r \in Requests |-> <<>>]
    /\ response = [r \in Requests |-> Running]
    /\ model_ = 0
    /\ loads = 0
    /\ evald = {}
    /\ returned = {}

Init == InitCommon /\ mode = "threads"

InitSingle == InitCommon /\ mode = "single"

Next ==
    \/ \E r \in Requests : StartPersist(r)
    \/ \E r \in Requests : LoopPersist(r)
    \/ \E r \in Requests : ReturnPersist(r)
    \/ \E id \in DownloadIds : Download(id)
    \/ Tick
    \/ \E r \in Requests : StartLazy(r)
    \/ \E r \in Requests : LoopLazy(r)
    \/ \E r \in Requests : GetModelCheck(r)
    \/ \E r \in Requests : GetModelLoad(r)
    \/ \E r \in Requests : GetModelEval(r)
    \/ \E r \in Requests : GetModelReturn(r)
    \/ \E r \in Requests : ReturnLazy(r)

\* requests handled by concurrent threads
Spec == Init /\ [][Next]_vars

\* one request, and any downloads
SpecSingle == InitSingle /\ [][Next]_vars

-----------------------------------------------------------------------------
(* What the claims speak of *)

\* the inputs that carry a filename, in input order
NamedInputs(fs) == SelectSeq(fs, LAMBDA part : part.filename # <<>>)

\* the files the loop of request r has gone through
Processed(r) == SubSeq(files[r], 1, idx[r] - 1)

RECURSIVE SumValues(_)
SumValues(dict) ==
    IF DOMAIN dict = {} THEN 0
    ELSE LET k == CHOOSE x \in DOMAIN dict : TRUE
         IN dict[k] + SumValues([x \in DOMAIN dict \ {k} |-> dict[x]])

Successes(rs) == { k \in 1..Len(rs) : rs[k].class # "error" }

SessionDir(id) == OUTPUT_DIR \o <<id>>

Tree(f, root) == { p \in DOMAIN f : InTree(p, root) }

-----------------------------------------------------------------------------
(* C1: in both deployments, whatever happens to each image, the loop has one *)
(* result per processed input that carries a filename and none for an input  *)
(* without one, and total_images of the answer is the number of inputs that  *)
(* carry a filename.                                                         *)
C1_TotalImages ==
    \A r \in Requests :
      /\ Len(results[r]) = Len(NamedInputs(Processed(r)))
      /\ response[r].status = 200 =>
           response[r].body.total_images = Len(NamedInputs(files[r]))

C1_Witness ==
    \E r \in Requests :
      /\ response[r].status = 200
      /\ \E k \in 1..Len(files[r]) : files[r][k].filename = <<>>
      /\ response[r].body.total_images = 1
      /\ Len(files[r]) = 2

(* C2: after every iteration of the loop and in the answer, the values of    *)
(* class_counts add up to the number of results whose class is not "error".  *)
C2_CountsMatchSuccesses ==
    \A r \in Requests :
      /\ SumValues(class_counts[r]) = Cardinality(Successes(results[r]))
      /\ response[r].status = 200 =>
           SumValues(response[r].body.class_counts)
             = Cardinality(Successes(response[r].body.results))

C2_Witness ==
    \E r \in Requests :
      /\ response[r].status = 200
      /\ Len(results[r]) = 2
      /\ Cardinality(Successes(results[r])) = 1

(* C3: an image that fails (decoding, model load, inference, save) gives a   *)
(* result of class "error" with a message and a successful one a class of    *)
(* the label table; the k-th result carries the filename of the k-th input   *)
(* that has one; and the request ends with an answer for all of them.        *)
C3_FailuresIsolatedInOrder ==
    \A r \in Requests :
      /\ Len(outcomes[r]) = Len(results[r])
      /\ \A k \in 1..Len(results[r]) :
           /\ k <= Len(NamedInputs(Processed(r)))
           /\ results[r][k].filename = NamedInputs(Processed(r))[k].filename
           /\ outcomes[r][k] # "ok" =>
                /\ results[r][k].class = "error"
                /\ "error" \in DOMAIN results[r][k]
           /\ outcomes[r][k] = "ok" =>
                /\ \E i \in 1..Len(CIFAR10_CLASSES) :
                     results[r][k].class = CIFAR10_CLASSES[i]
                /\ "error" \notin DOMAIN results[r][k]
      /\ (pc[r] = "done" /\ files[r] # <<>>) =>
           /\ response[r].status = 200
           /\ Len(response[r].body.results) = Len(NamedInputs(files[r]))

C3_Witness ==
    \E r \in Requests :
      /\ response[r].status = 200
      /\ Len(outcomes[r]) = 2
      /\ outcomes[r][1] # "ok"
      /\ outcomes[r][2] = "ok"

(* C4: torch.hub.load returns a model at most once in the life of the        *)
(* process, and every caller of get_model is handed that one model.          *)
C4_SingleLoad ==
    /\ loads <= 1
    /\ Cardinality({ x[1] : x \in returned }) <= 1

(* C5: in every state the service reaches, download(id) answers 200 only for *)
(* an id that names a session directory under the output root.               *)
C5_UnknownIdIs404 ==
    \A id \in DownloadIds :
      download(dirs, disk, id).status = 200 => SessionDir(id) \in dirs

(* C6: a download of an existing session answers an archive that holds, for  *)
(* every file of the session's tree, its path relative to the session        *)
(* directory with the content on disk, and nothing else; the step leaves the *)
(* session's tree as it was.                                                 *)
C6_ArchiveIsTree ==
    [][\A id \in DownloadIds :
         (Download(id) /\ SessionDir(id) \in dirs) =>
           LET root == SessionDir(id)
               resp == download(dirs, disk, id)
           IN /\ resp.status = 200
              /\ \A p \in Tree(disk, root) :
                   <<SubSeq(p, Len(root) + 1, Len(p)), disk[p]>> \in resp.archive
              /\ \A e \in resp.archive :
                   /\ root \o e[1] \in Tree(disk, root)
                   /\ disk[root \o e[1]] = e[2]
              /\ Tree(disk', root) = Tree(disk, root)
              /\ \A p \in Tree(disk, root) : disk'[p] = disk[p]
              /\ dirs' = dirs]_vars

C6_Witness ==
    \E t \in 1..MaxClock :
      LET zip_path == OUTPUT_DIR \o <<ZipName(Strftime(t))>>
          root == SessionDir(Strftime(t))
      IN /\ zip_path \in DOMAIN disk
         /\ root \o <<"cat", "a.png">> \in DOMAIN disk
         /\ root \o <<"dog", "a.png">> \in DOMAIN disk
         /\ Cardinality(disk[zip_path].zip) = 2

(* C7: predict answers 400 exactly when the request brings no file with a    *)
(* filename, and 200 only when it brings at least one.                       *)
C7_NoFilesIs400 ==
    \A r \in Requests :
      pc[r] = "done" =>
        (response[r].status = 400 <=> NamedInputs(files[r]) = <<>>)

(* C8: the handle is unset exactly as long as no load has succeeded (a       *)
(* failed load leaves it unset, so the next call loads again); get_model     *)
(* never hands out a model on which eval() has not been called; and outside  *)
(* a running load the handle is None or an eval-mode model.                  *)
C8_HandleInitialised ==
    /\ model_ = 0 <=> loads = 0
    /\ \A x \in returned : x[2]
    /\ (model_ # 0 /\ \A r \in Requests : pc[r] # "eval") => model_ \in evald

(* C9, as claimed: once predict has answered a batch with at least one      *)
(* named input, the directory of the returned session_id exists whatever     *)
(* happened to the images: the id is listed by list_sessions and             *)
(* download(session_id) answers 200.                                         *)
C9_SessionExistsAlways ==
    \A r \in Requests :
      (variant = "persist" /\ response[r].status = 200
         /\ NamedInputs(files[r]) # <<>>) =>
        /\ response[r].body.session_id \in list_sessions
        /\ download(dirs, disk, response[r].body.session_id).status = 200

(* C9, amended: once predict has answered a batch of which at least one      *)
(* image was classified and saved (a result whose class is not "error"),     *)
(* the directory of the returned session_id exists: the id is listed by      *)
(* list_sessions and download(session_id) answers 200; and no step removes   *)
(* a directory or a file of the output root.                                 *)
C9_SessionExistsAfterSave ==
    /\ [](\A r \in Requests :
           (variant = "persist" /\ response[r].status = 200
              /\ Successes(response[r].body.results) # {}) =>
             /\ response[r].body.session_id \in list_sessions
             /\ download(dirs, disk, response[r].body.session_id).status = 200)
    /\ [][dirs \subseteq dirs' /\ DOMAIN disk \subseteq DOMAIN disk']_vars

C9_Witness ==
    \E r \in Requests :
      /\ variant = "persist"
      /\ response[r].status = 200
      /\ Cardinality(Successes(response[r].body.results)) = 1
      /\ Len(response[r].body.results) = 2
      /\ response[r].body.session_id \in list_sessions
      /\ OUTPUT_DIR \o <<ZipName(response[r].body.session_id)>> \in DOMAIN disk

(* C10: a loop iteration of one batch creates or changes no file in the tree *)
(* of a session with another id.                                             *)
C10_SessionsIsolated ==
    [][\A r \in Requests, q \in Requests :
         (LoopPersist(r) /\ session_id[q] \notin {"", session_id[r]}) =>
           \A p \in Tree(disk', SessionDir(session_id[q])) :
             p \in DOMAIN disk /\ disk'[p] = disk[p]]_vars

====
